---- MODULE Spec2Model ----
(***************************************************************************)
(* Storage key decoding of src/src/decode_storage_key_value.rs:            *)
(* StoragePrefixLookupTable (built from a Metadata document) and           *)
(* parse_storage_key, which slices a hex storage key into the readable     *)
(* TransparentStorageKey.                                                  *)
(*                                                                         *)
(* A hex string is a sequence of one-character strings.  An Option<T> is   *)
(* a set with at most one element ({} is None, {x} is Some(x)).  A panic   *)
(* (an out-of-range slice, unreachable!()) ends the call and is recorded   *)
(* in the result as kind "panic".                                          *)
(***************************************************************************)
EXTENDS Integers, Sequences, FiniteSets, TLC

VARIABLES metadata, table, storage_key, result, pc

vars == <<metadata, table, storage_key, result, pc>>

----------------------------------------------------------------------------
(* Bounds of the model *)

\* The longest storage key handed to parse_storage_key, in hex characters.
\* The longest layout of the model is 64 + 32 + 64 + 32 = 192 characters.
MaxKeyLength == 200

----------------------------------------------------------------------------
(* Hex strings *)

HexChars ==
    <<"0", "1", "2", "3", "4", "5", "6", "7", "8", "9", "a", "b", "c", "d", "e", "f">>

\* hex::encode: two lowercase hex characters per byte, high nibble first.
RECURSIVE HexEncode(_)
HexEncode(bytes) ==
    IF bytes = << >> THEN << >>
    ELSE <<HexChars[(Head(bytes) \div 16) + 1], HexChars[(Head(bytes) % 16) + 1]>>
         \o HexEncode(Tail(bytes))

\* &s[from..to] is in range (otherwise the slice panics); the strings are ASCII,
\* so every index is a character boundary.
InRange(s, from, to) == from <= to /\ to <= Len(s)

\* &s[from..to], for an in-range slice.
Slice(s, from, to) == SubSeq(s, from + 1, to)

\* &s[from..]
SliceFrom(s, from) == Slice(s, from, Len(s))

\* &s[..to]
SliceTo(s, to) == Slice(s, 0, to)

----------------------------------------------------------------------------
(* Metadata *)

StorageHasher ==
    {"Blake2_128", "Blake2_256", "Blake2_128Concat", "Twox128", "Twox256",
     "Twox64Concat", "Identity"}

\* sp_core::twox_128 of the names the model uses: the digests the tests quote.
twox_128(name) ==
    CASE name = "System" ->
           <<38, 170, 57, 78, 234, 86, 48, 224, 124, 72, 174, 12, 149, 88, 206, 247>>
      [] name = "Account" ->
           <<185, 157, 136, 14, 198, 129, 121, 156, 12, 243, 14, 136, 134, 55, 29, 169>>
      [] name = "ImOnline" ->
           <<43, 6, 175, 151, 25, 172, 100, 215, 85, 98, 60, 218, 141, 221, 155, 148>>
      [] name = "AuthoredBlocks" ->
           <<177, 195, 113, 222, 217, 233, 197, 101, 232, 155, 167, 131, 196, 213, 245, 249>>

\* StorageMetadata::prefix: the module prefix's hash followed by the storage
\* prefix's hash (the StorageKey's bytes).
prefix(storage_metadata) ==
    twox_128(storage_metadata.module_prefix) \o twox_128(storage_metadata.storage_prefix)

ModuleNames == {"System", "ImOnline"}
ItemNames == {"Account", "AuthoredBlocks"}

\* The key1 type names of the double maps: the three of the key1 length table
\* and one ("Kind") the table does not hold.
Key1Types == {"T::AccountId", "SessionIndex", "EraIndex", "Kind"}

PlainType == [tag |-> "Plain", value |-> "T::BlockNumber"]

MapType(hasher) ==
    [tag |-> "Map", hasher |-> hasher, key |-> "T::AccountId",
     value |-> "AccountInfo<T::Index, T::AccountData>"]

DoubleMapType(hasher, key1, key2_hasher) ==
    [tag |-> "DoubleMap", hasher |-> hasher, key1 |-> key1, key2 |-> "T::ValidatorId",
     value |-> "u32", key2_hasher |-> key2_hasher]

\* frame_metadata::StorageEntryType, with every hasher in every key position.
StorageEntryType ==
    {PlainType}
      \cup {MapType(h) : h \in StorageHasher}
      \cup {DoubleMapType(h1, k1, h2) : h1 \in StorageHasher, k1 \in Key1Types,
                                        h2 \in StorageHasher}

StorageMetadata(module_prefix, storage_prefix, ty) ==
    [module_prefix |-> module_prefix, storage_prefix |-> storage_prefix, ty |-> ty]

\* The kinds the two-item documents draw from.
PairTypes ==
    {PlainType, MapType("Blake2_128Concat"),
     DoubleMapType("Twox64Concat", "SessionIndex", "Twox64Concat")}

\* A Metadata document, flattened: (module name, storage item name) |-> the item's
\* StorageMetadata.  A storage item is listed under its storage prefix; a module's
\* prefix need not be the name the module is listed under.
\* One-item documents cover every StorageEntryType; two-item documents cover the
\* lookup among several items, including two items with the same prefix.
Metadatas ==
    {(<<"System", "Account">> :> StorageMetadata("System", "Account", ty)) :
        ty \in StorageEntryType}
      \cup
    {(<<"System", "Account">> :> StorageMetadata("System", "Account", ty1))
        @@ (<<"ImOnline", item>> :> StorageMetadata(module_prefix, item, ty2)) :
        ty1 \in PairTypes, ty2 \in PairTypes, item \in ItemNames,
        module_prefix \in ModuleNames}

----------------------------------------------------------------------------
(* Lookup table *)

\* The storage items of a document.
Items(md) == {md[slot] : slot \in DOMAIN md}

\* From with each item filed under the hash of the names it is listed under
\* instead of the prefixes its StorageMetadata declares.
From_by_listed_names(md) ==
    LET listed(slot) == HexEncode(twox_128(slot[1]) \o twox_128(slot[2]))
    IN  {[k \in {listed(slot) : slot \in DOMAIN md} |->
            md[CHOOSE slot \in DOMAIN md : listed(slot) = k]]}

\* impl From<Metadata> for StoragePrefixLookupTable: every item is collected into
\* the HashMap under hex::encode(prefix).  Collecting inserts in the iteration
\* order of the document's HashMaps, which is arbitrary, and a later insert
\* replaces an earlier one under the same key: every table that holds, under each
\* prefix, one of the items with that prefix is a possible outcome.
From(md) ==
    LET keys == {HexEncode(prefix(item)) : item \in Items(md)}
    IN  {t \in [keys -> Items(md)] : \A k \in keys : HexEncode(prefix(t[k])) = k}

PREFIX_LENGTH == 32 * 2

\* lookup matching the module half of the prefix only.
lookup_by_module(self, storage_prefix) ==
    {self[k] : k \in {k \in DOMAIN self : SliceTo(k, 32) = SliceTo(storage_prefix, 32)}}

\* StoragePrefixLookupTable::lookup
lookup(self, storage_prefix) ==
    IF storage_prefix \in DOMAIN self THEN {self[storage_prefix]} ELSE {}

get_double_map_key1_length_table ==
    ("T::AccountId" :> 64) @@ ("SessionIndex" :> 8) @@ ("EraIndex" :> 8)

get_key1_length(key1_ty) ==
    IF key1_ty \in DOMAIN get_double_map_key1_length_table
    THEN {get_double_map_key1_length_table[key1_ty]}
    ELSE {}

\* hash_length_of with Twox64Concat taken for 8 hex characters.
hash_length_of_twox64_8(hasher) ==
    CASE hasher \in {"Blake2_128", "Blake2_128Concat", "Twox128"} -> 32
      [] hasher \in {"Blake2_256", "Twox256"} -> 32 * 2
      [] hasher = "Twox64Concat" -> 8
      [] hasher = "Identity" -> "unreachable"

\* hash_length_of with the digest lengths in bytes instead of hex characters.
hash_length_of_in_bytes(hasher) ==
    CASE hasher \in {"Blake2_128", "Blake2_128Concat", "Twox128"} -> 16
      [] hasher \in {"Blake2_256", "Twox256"} -> 32
      [] hasher = "Twox64Concat" -> 8
      [] hasher = "Identity" -> "unreachable"

\* The length of a hasher's digest in hex characters; unreachable!() for Identity.
hash_length_of(hasher) ==
    CASE hasher = "Blake2_128" -> 32
      [] hasher = "Blake2_256" -> 32 * 2
      [] hasher = "Blake2_128Concat" -> 32
      [] hasher = "Twox128" -> 32
      [] hasher = "Twox256" -> 32 * 2
      [] hasher = "Twox64Concat" -> 16
      [] hasher = "Identity" -> "unreachable"

----------------------------------------------------------------------------
(* parse_storage_key *)

\* Some(TransparentStorageKey { .. })
ReturnSome(storage_metadata, ty) ==
    [kind |-> "Some",
     value |-> {[module_prefix |-> storage_metadata.module_prefix,
                 storage_prefix |-> storage_metadata.storage_prefix,
                 ty |-> ty]},
     stdout |-> << >>, panic |-> ""]

\* println!(message); None.  None holds no data: what the call tells of the
\* failure is the line it printed, a format string followed by its arguments
\* (no println! of the parser has any).
ReturnNone(message) ==
    [kind |-> "None", value |-> {}, stdout |-> <<message>>, panic |-> ""]

\* The call panics: nothing is returned.
Panic(message) == [kind |-> "panic", value |-> {}, stdout |-> << >>, panic |-> message]

OutOfRange == "slice index out of range"

IsConcat(hasher) == hasher \in {"Twox64Concat", "Blake2_128Concat"}

\* The Map arm with the digest left in the recovered key.
ParseMap_keeps_digest(storage_metadata, key) ==
    LET ty == storage_metadata.ty IN
    IF ~IsConcat(ty.hasher)
    THEN Panic("unreachable: All Map storage should use foo_concat hasher")
    ELSE
      LET hashed_key_concat == SliceFrom(key, PREFIX_LENGTH)
          hash_length == hash_length_of(ty.hasher)
      IN  IF ~InRange(hashed_key_concat, 0, hash_length) THEN Panic(OutOfRange)
          ELSE ReturnSome(storage_metadata,
                          [tag |-> "Map",
                           key |-> hashed_key_concat,
                           value_ty |-> ty.value])

\* The StorageEntryType::Map arm.
ParseMap(storage_metadata, key) ==
    LET ty == storage_metadata.ty IN
    IF ~IsConcat(ty.hasher)
    THEN Panic("unreachable: All Map storage should use foo_concat hasher")
    ELSE
      LET hashed_key_concat == SliceFrom(key, PREFIX_LENGTH)
          hash_length == hash_length_of(ty.hasher)
      IN  IF ~InRange(hashed_key_concat, 0, hash_length) THEN Panic(OutOfRange)
          ELSE ReturnSome(storage_metadata,
                          [tag |-> "Map",
                           key |-> SliceFrom(hashed_key_concat, hash_length),
                           value_ty |-> ty.value])

\* The StorageEntryType::DoubleMap arm: hashed_key1 ++ key1 ++ hashed_key2 ++ key2.
ParseDoubleMap(storage_metadata, key) ==
    LET ty == storage_metadata.ty
        hashed_key_concat == SliceFrom(key, PREFIX_LENGTH)
    IN
    IF ~IsConcat(ty.hasher)
    THEN Panic("unreachable: All DoubleMap storage should use foo_concat hasher for key1")
    ELSE
      LET key1_hash_length == hash_length_of(ty.hasher) IN
      IF ~InRange(hashed_key_concat, key1_hash_length, Len(hashed_key_concat))
      THEN Panic(OutOfRange)
      ELSE
        LET key1_hashed_key2_key2 == SliceFrom(hashed_key_concat, key1_hash_length)
            key1_ty == ty.key1
            found == get_key1_length(key1_ty)
        IN
        IF found = {}
        THEN ReturnNone("ERROR: can not infer the length of key1")
        ELSE
          LET key1_length == CHOOSE n \in found : TRUE IN
          IF ~InRange(key1_hashed_key2_key2, 0, key1_length) THEN Panic(OutOfRange)
          ELSE
            LET key1 == SliceTo(key1_hashed_key2_key2, key1_length)
                hashed_key2_key2 == SliceFrom(key1_hashed_key2_key2, key1_length)
            IN
            IF ~IsConcat(ty.key2_hasher)
            THEN Panic("unreachable: All DoubleMap storage should use foo_concat hasher for key2")
            ELSE
              LET key2_hash_length == hash_length_of(ty.key2_hasher) IN
              IF ~InRange(hashed_key2_key2, key2_hash_length, Len(hashed_key2_key2))
              THEN Panic(OutOfRange)
              ELSE ReturnSome(storage_metadata,
                              [tag |-> "DoubleMap",
                               key1 |-> key1,
                               key1_ty |-> key1_ty,
                               key2 |-> SliceFrom(hashed_key2_key2, key2_hash_length),
                               key2_ty |-> ty.key2])

\* StoragePrefixLookupTable::parse_storage_key
parse_storage_key(self, key) ==
    IF ~InRange(key, 0, PREFIX_LENGTH) THEN Panic(OutOfRange)
    ELSE
      LET storage_prefix == SliceTo(key, PREFIX_LENGTH)
          found == lookup(self, storage_prefix)
      IN
      IF found = {}
      THEN ReturnNone("ERROR: can not find the StorageMetadata from lookup table")
      ELSE
        LET storage_metadata == CHOOSE m \in found : TRUE IN
        CASE storage_metadata.ty.tag = "Plain" ->
               ReturnSome(storage_metadata, [tag |-> "Plain"])
          [] storage_metadata.ty.tag = "Map" -> ParseMap(storage_metadata, key)
          [] storage_metadata.ty.tag = "DoubleMap" -> ParseDoubleMap(storage_metadata, key)

----------------------------------------------------------------------------
(* The storage keys handed to the parser *)

\* The 64-character prefixes the keys start with: every pairing of a module
\* name's and an item name's hash, in and out of the table.
KeyPrefixes ==
    {HexEncode(twox_128(m) \o twox_128(i)) : m \in ModuleNames, i \in ItemNames}

\* Two streams of hex characters for what follows the prefix.
Stream(p, n) == [i \in 1..n |-> HexChars[((i * p + (i \div 7)) % 16) + 1]]

Streams == {1, 5}

\* The keys of the repository's tests: System.Account of an account id, and
\* ImOnline.AuthoredBlocks of session 0 and a validator id.
AccountId ==
    <<190, 93, 219, 21, 121, 183, 46, 132, 82, 79, 194, 158, 120, 96, 158, 60,
      175, 66, 232, 90, 161, 24, 235, 254, 11, 10, 212, 4, 181, 189, 210, 95>>

AccountKey ==
    HexEncode(twox_128("System") \o twox_128("Account")
              \o <<50, 165, 147, 95, 110, 220, 97, 122, 225, 120, 254, 249, 235, 30, 33, 31>>
              \o AccountId)

AuthoredBlocksKey ==
    HexEncode(twox_128("ImOnline") \o twox_128("AuthoredBlocks")
              \o <<180, 222, 242, 92, 253, 166, 239, 58>> \o <<0, 0, 0, 0>>
              \o <<229, 53, 38, 49, 72, 218, 175, 73>> \o AccountId)

\* Every key of at most MaxKeyLength characters that is the start of a prefix
\* followed by a stream, and the two keys of the tests.
StorageKeys ==
    {SliceTo(p \o Stream(s, MaxKeyLength - PREFIX_LENGTH), n) :
        p \in KeyPrefixes, s \in Streams, n \in 0..MaxKeyLength}
      \cup {AccountKey, AuthoredBlocksKey}

----------------------------------------------------------------------------
(* The state machine: build the table once, then parse key after key *)

NoResult == [kind |-> "-", value |-> {}, stdout |-> << >>, panic |-> ""]

Init ==
    /\ metadata \in Metadatas
    /\ table = << >>
    /\ storage_key = << >>
    /\ result = NoResult
    /\ pc = "new"

\* let table: StoragePrefixLookupTable = metadata.into();
Build ==
    /\ pc = "new"
    /\ table' \in From(metadata)
    /\ pc' = "ready"
    /\ UNCHANGED <<metadata, storage_key, result>>

\* table.parse_storage_key(key): the call returns, or panics and ends the caller.
Parse ==
    /\ pc = "ready"
    /\ \E key \in StorageKeys :
         /\ storage_key' = key
         /\ result' = parse_storage_key(table, key)
    /\ pc' = IF result'.kind = "panic" THEN "panicked" ELSE "returned"
    /\ UNCHANGED <<metadata, table>>

\* The caller takes the result and is ready to parse the next key.
NextKey ==
    /\ pc = "returned"
    /\ storage_key' = << >>
    /\ result' = NoResult
    /\ pc' = "ready"
    /\ UNCHANGED <<metadata, table>>

Next == Build \/ Parse \/ NextKey

Spec == Init /\ [][Next]_vars

----------------------------------------------------------------------------
(* What the properties speak of *)

\* parse_storage_key has been called on storage_key and result is its outcome.
Called == pc \in {"returned", "panicked"}

\* The key's first 64 characters.
KeyPrefix == SubSeq(storage_key, 1, 64)

\* The key's first 64 characters are a key of the lookup table.
Resolves == Len(storage_key) >= 64 /\ KeyPrefix \in DOMAIN table

\* The storage item the key's prefix resolves to.
Descriptor == table[KeyPrefix]

\* s without its first n characters.
Drop(s, n) == SubSeq(s, n + 1, Len(s))

\* The TransparentStorageKey of a Some result.
Returned == CHOOSE v \in result.value : TRUE

ConcatHashers == {"Twox64Concat", "Blake2_128Concat"}

\* The digest lengths of the bit-exact contract, in hex characters.
DigestLength ==
    [h \in StorageHasher |->
        CASE h \in {"Blake2_128", "Twox128", "Blake2_128Concat"} -> 32
          [] h \in {"Blake2_256", "Twox256"} -> 64
          [] h = "Twox64Concat" -> 16
          [] h = "Identity" -> 0]

\* The characters a Map key's layout needs after the prefix.
MapLayout == DigestLength[Descriptor.ty.hasher]

\* The characters a DoubleMap key's layout needs after the prefix, for a key1
\* type of the key1 length table.
DoubleMapLayout ==
    DigestLength[Descriptor.ty.hasher]
      + get_double_map_key1_length_table[Descriptor.ty.key1]
      + DigestLength[Descriptor.ty.key2_hasher]

IsConcatMap ==
    /\ Resolves
    /\ Descriptor.ty.tag = "Map"
    /\ Descriptor.ty.hasher \in ConcatHashers

IsConcatDoubleMap ==
    /\ Resolves
    /\ Descriptor.ty.tag = "DoubleMap"
    /\ Descriptor.ty.hasher \in ConcatHashers
    /\ Descriptor.ty.key2_hasher \in ConcatHashers
    /\ Descriptor.ty.key1 \in DOMAIN get_double_map_key1_length_table

\* The call returned a failure: no TransparentStorageKey, and no abort.
ReturnedFailure == result.kind = "None" /\ result.value = {}

UnknownPrefixLine == "ERROR: can not find the StorageMetadata from lookup table"
UnknownKeyLengthLine == "ERROR: can not infer the length of key1"

\* The Map result of the key: the key without its prefix and digest, and the
\* item's value type name.
MapResult ==
    /\ result.kind = "Some"
    /\ result.value =
         {[module_prefix |-> Descriptor.module_prefix,
           storage_prefix |-> Descriptor.storage_prefix,
           ty |-> [tag |-> "Map",
                   key |-> Drop(storage_key, 64 + MapLayout),
                   value_ty |-> Descriptor.ty.value]]}
    /\ Len(Returned.ty.key) = Len(storage_key) - 64 - MapLayout

\* The DoubleMap result of the key.
DoubleMapResult ==
    LET d1 == DigestLength[Descriptor.ty.hasher]
        k1 == get_double_map_key1_length_table[Descriptor.ty.key1]
        d2 == DigestLength[Descriptor.ty.key2_hasher]
    IN  /\ result.kind = "Some"
        /\ result.value =
             {[module_prefix |-> Descriptor.module_prefix,
               storage_prefix |-> Descriptor.storage_prefix,
               ty |-> [tag |-> "DoubleMap",
                       key1 |-> SubSeq(storage_key, 64 + d1 + 1, 64 + d1 + k1),
                       key1_ty |-> Descriptor.ty.key1,
                       key2 |-> Drop(storage_key, 64 + d1 + k1 + d2),
                       key2_ty |-> Descriptor.ty.key2]]}
        /\ Len(Returned.ty.key1) = k1
        /\ Len(Returned.ty.key1) + Len(Returned.ty.key2)
             = Len(storage_key) - 64 - d1 - d2

----------------------------------------------------------------------------
(* C1 *)

\* C1, as claimed: every key whose prefix resolves to a Map item with a concat
\* hasher parses to the Map result (the key without its first 64 + digest
\* length characters, and the declared value type name).
C1_MapKeyOfEveryKey == (Called /\ IsConcatMap) => MapResult

\* C1, amended: every key of at least 64 + digest_length(hasher) characters whose
\* prefix resolves to a Map item with a concat hasher parses to the Map result:
\* the recovered key is the storage key without its first 64 + digest length
\* characters, len(recovered key) = len(storage key) - 64 - digest length, and the
\* value type name is the declared one.
C1_MapKeyRecovered ==
    (Called /\ IsConcatMap /\ Len(storage_key) >= 64 + MapLayout) => MapResult

\* The test's key of System.Account parses to the account id and the value type.
C1_Witness ==
    /\ pc = "returned"
    /\ storage_key = AccountKey
    /\ result.value =
         {[module_prefix |-> "System", storage_prefix |-> "Account",
           ty |-> [tag |-> "Map", key |-> HexEncode(AccountId),
                   value_ty |-> "AccountInfo<T::Index, T::AccountData>"]]}

----------------------------------------------------------------------------
(* C2 *)

\* C2, as claimed: every key whose prefix resolves to a DoubleMap item with
\* concat hashers and a key1 type of the key1 length table parses to the
\* DoubleMap result.
C2_DoubleMapKeysOfEveryKey == (Called /\ IsConcatDoubleMap) => DoubleMapResult

\* C2, amended: every key of at least 64 + digest_length(hasher1) + key1_length +
\* digest_length(hasher2) characters whose prefix resolves to a DoubleMap item
\* with concat hashers and a key1 type of the key1 length table parses to the
\* DoubleMap result: key1 is the key1_length characters after the prefix and
\* hasher1's digest, key2 is all that follows key1 and hasher2's digest, both
\* declared key type names are attached, and len(key1) + len(key2) =
\* len(storage key) - 64 - both digest lengths, with len(key1) the table's entry.
C2_DoubleMapKeysRecovered ==
    (Called /\ IsConcatDoubleMap /\ Len(storage_key) >= 64 + DoubleMapLayout)
        => DoubleMapResult

\* The test's key of ImOnline.AuthoredBlocks parses to session 0 and the
\* validator id.
C2_Witness ==
    /\ pc = "returned"
    /\ storage_key = AuthoredBlocksKey
    /\ result.value =
         {[module_prefix |-> "ImOnline", storage_prefix |-> "AuthoredBlocks",
           ty |-> [tag |-> "DoubleMap",
                   key1 |-> <<"0", "0", "0", "0", "0", "0", "0", "0">>,
                   key1_ty |-> "SessionIndex",
                   key2 |-> HexEncode(AccountId),
                   key2_ty |-> "T::ValidatorId"]]}

----------------------------------------------------------------------------
(* C3 *)

\* C3: a key of at least 64 characters whose first 64 characters are no key of
\* the lookup table yields the unknown-prefix failure (None, after the line
\* that says the item was not found) and no TransparentStorageKey, whatever
\* follows the prefix.
C3_UnknownPrefixReturnsNone ==
    (Called /\ Len(storage_key) >= 64 /\ KeyPrefix \notin DOMAIN table)
        => (ReturnedFailure /\ result.stdout = <<UnknownPrefixLine>>)

\* An unknown prefix followed by more characters has been parsed, with other
\* items in the table.
C3_Witness ==
    /\ pc = "returned"
    /\ Len(storage_key) > 64 + 32
    /\ KeyPrefix \notin DOMAIN table
    /\ Cardinality(DOMAIN table) = 2
    /\ result.kind = "None"

----------------------------------------------------------------------------
(* C4 *)

\* The type names a returned failure carries: the arguments of the line printed.
Carries(r, name) == \E i \in DOMAIN r.stdout : i > 1 /\ r.stdout[i] = name

\* C4: when a DoubleMap item's key1 type name is not in the key1 length table,
\* the call returns the failure UnknownKeyLength carrying that type name: it
\* does not abort and returns no TransparentStorageKey.  Stated for the keys
\* that reach the lookup (hasher1 is a concat hasher and its digest is all
\* there), so that no other failure stands in the way.
C4_UnknownKeyLengthCarriesTypeName ==
    (/\ Called
     /\ Resolves
     /\ Descriptor.ty.tag = "DoubleMap"
     /\ Descriptor.ty.key1 \notin DOMAIN get_double_map_key1_length_table
     /\ Descriptor.ty.hasher \in ConcatHashers
     /\ Len(storage_key) >= 64 + DigestLength[Descriptor.ty.hasher])
        => (ReturnedFailure /\ Carries(result, Descriptor.ty.key1))

----------------------------------------------------------------------------
(* C5 *)

\* The item has a hasher outside the concat family in a key position.
HasUnsupportedHasher ==
    /\ Resolves
    /\ \/ /\ Descriptor.ty.tag = "Map"
          /\ Descriptor.ty.hasher \notin ConcatHashers
       \/ /\ Descriptor.ty.tag = "DoubleMap"
          /\ \/ Descriptor.ty.hasher \notin ConcatHashers
             \/ Descriptor.ty.key2_hasher \notin ConcatHashers

\* C5: a Map item whose hasher, or a DoubleMap item whose hasher1 or hasher2, is
\* not in the concat family yields the UnsupportedHasher failure as a returned
\* value: no abort, no TransparentStorageKey, and not the failure of the key1
\* length lookup.
C5_UnsupportedHasherReturned ==
    (Called /\ HasUnsupportedHasher)
        => (ReturnedFailure /\ result.stdout # <<UnknownKeyLengthLine>>)

----------------------------------------------------------------------------
(* C6 *)

\* The key has fewer characters after the prefix than the item's layout needs.
IsTruncated ==
    /\ Resolves
    /\ \/ /\ Descriptor.ty.tag = "Map"
          /\ Len(storage_key) - 64 < MapLayout
       \/ /\ Descriptor.ty.tag = "DoubleMap"
          /\ Descriptor.ty.key1 \in DOMAIN get_double_map_key1_length_table
          /\ Len(storage_key) - 64 < DoubleMapLayout

\* C6: a key whose prefix resolves to a keyed item and which has fewer characters
\* after the prefix than the layout requires yields the TruncatedKey failure as
\* a returned value: no abort on an out-of-range slice, no TransparentStorageKey.
C6_TruncatedKeyReturned == (Called /\ IsTruncated) => ReturnedFailure

----------------------------------------------------------------------------
(* C7 *)

\* C7: a key shorter than 64 characters fails with UnknownPrefix as a returned
\* value, for any lookup table: taking the prefix never aborts the call.
C7_ShortKeyReturnsUnknownPrefix ==
    (Called /\ Len(storage_key) < 64)
        => (ReturnedFailure /\ result.stdout = <<UnknownPrefixLine>>)

----------------------------------------------------------------------------
(* C8 *)

\* C8: for a key that parses successfully (Plain, Map or DoubleMap), the prefix
\* re-derived from the returned module name and storage item name (the module
\* name's hash, then the item name's hash, hex-encoded) is the key's first 64
\* characters.
C8_PrefixRoundTrip ==
    (Called /\ result.kind = "Some")
        => /\ Len(storage_key) >= 64
           /\ HexEncode(twox_128(Returned.module_prefix)
                        \o twox_128(Returned.storage_prefix)) = KeyPrefix

\* A key has parsed to the item listed under another module name than the
\* module prefix it declares.
C8_Witness ==
    /\ pc = "returned"
    /\ result.kind = "Some"
    /\ <<"ImOnline", "AuthoredBlocks">> \in DOMAIN metadata
    /\ metadata[<<"ImOnline", "AuthoredBlocks">>].module_prefix = "System"
    /\ Returned.module_prefix = "System"
    /\ Returned.storage_prefix = "AuthoredBlocks"
    /\ Returned.ty.tag = "DoubleMap"

----------------------------------------------------------------------------
(* C9 *)

\* Two storage items of the document have the same prefix.
HasDuplicatePrefix ==
    \E s1, s2 \in DOMAIN metadata :
        s1 # s2 /\ prefix(metadata[s1]) = prefix(metadata[s2])

\* C9: a document in which two storage items have the same prefix is rejected:
\* no table is built from it.  A table that is built holds exactly one entry
\* per storage item, under that item's prefix.
C9_DuplicatePrefixRejected ==
    (pc # "new")
        => /\ ~HasDuplicatePrefix
           /\ Cardinality(DOMAIN table) = Cardinality(DOMAIN metadata)
           /\ \A s \in DOMAIN metadata :
                  /\ HexEncode(prefix(metadata[s])) \in DOMAIN table
                  /\ table[HexEncode(prefix(metadata[s]))] = metadata[s]

----------------------------------------------------------------------------
(* C10 *)

\* C10: the digest length is a fixed function of the hasher (32 for Blake2-128,
\* Twox-128 and Blake2-128Concat, 64 for Blake2-256 and Twox-256, 16 for
\* Twox-64Concat) and the prefix is 64 characters wide; every successful parse
\* of a Map or DoubleMap key skips exactly these widths, whatever the key's
\* content and length: what it returns and what it skips add up to the key.
C10_DigestLengthsSkipped ==
    /\ \A h \in StorageHasher \ {"Identity"} : hash_length_of(h) = DigestLength[h]
    /\ PREFIX_LENGTH = 64
    /\ (Called /\ result.kind = "Some" /\ Returned.ty.tag = "Map")
          => Len(storage_key)
               = 64 + DigestLength[Descriptor.ty.hasher] + Len(Returned.ty.key)
    /\ (Called /\ result.kind = "Some" /\ Returned.ty.tag = "DoubleMap")
          => Len(storage_key)
               = 64 + DigestLength[Descriptor.ty.hasher] + Len(Returned.ty.key1)
                    + DigestLength[Descriptor.ty.key2_hasher] + Len(Returned.ty.key2)

\* A double map key of a Blake2_128Concat and a Twox64Concat hasher has parsed
\* with 64, 32 and 16 characters skipped.
C10_Witness ==
    /\ pc = "returned"
    /\ result.kind = "Some"
    /\ Returned.ty.tag = "DoubleMap"
    /\ Descriptor.ty.hasher = "Blake2_128Concat"
    /\ Descriptor.ty.key2_hasher = "Twox64Concat"
    /\ Len(Returned.ty.key2) > 0
    /\ Len(storage_key) - Len(Returned.ty.key1) - Len(Returned.ty.key2) = 64 + 32 + 16

====
